---------------------------- MODULE Spec2Model ----------------------------
(***************************************************************************)
(* Model of arkanoid.cpp: the entity store (Manager), the shapes and the   *)
(* gameplay entities (Ball, Paddle, Brick), the collision functions and    *)
(* the frame loop of Game::run.                                            *)
(*                                                                         *)
(* Coordinates are floats in the source.  Every value the program computes *)
(* from its constants and from the integer touch location is an integer    *)
(* far below 2^24, where float arithmetic is exact, so positions, extents  *)
(* and velocities are modelled as integers.                                *)
(*                                                                         *)
(* Objects live in heap, a function from addresses to records.  The master *)
(* list entities holds the owning pointers, groupedEntities the raw        *)
(* pointers per type.  The key typeid(T).hash_code() is modelled by the    *)
(* type's name.                                                            *)
(***************************************************************************)
EXTENDS Integers, Sequences, FiniteSets, TLC

VARIABLES
    heap,                   \* address -> object owned by a unique_ptr
    entities,               \* Manager::entities, sequence of addresses
    groupedEntities,        \* Manager::groupedEntities, type -> sequence of addresses
    state,                  \* Game::state
    pausePressedLastFrame,  \* Game::pausePressedLastFrame
    remainingLives,         \* Game::remainingLives
    gTouchLocation,         \* gTouchLocation.x (y is never read)
    gTouchTap,              \* gTouchTap
    quit,                   \* local quit of Game::run
    pc,                     \* position in main / Game::run, or the harness in use
    op,                     \* the operation that acted last
    nOps                    \* harness counter: operations applied to the collision
                            \* input; refresh calls the Manager harness made in a row

vars == <<heap, entities, groupedEntities, state, pausePressedLastFrame,
          remainingLives, gTouchLocation, gTouchTap, quit, pc, op, nOps>>

(***************************************************************************)
(* Program constants.                                                      *)
(***************************************************************************)
gScreenRect_w == 800
gScreenRect_h == 600
Ball_defRadius == 10
Ball_defVelocity == 8
Paddle_defWidth == 60
Paddle_defHeight == 20
Brick_defWidth == 60
Brick_defHeight == 20
brkCountX == 11
brkCountY == 4
brkStartColumn == 1
brkStartRow == 2
brkSpacing == 3
brkOffsetX == 22
paddleBottomMargin == 50
initialLives == 3
alphaHits1 == 80
alphaHits2 == 170
alphaHits3 == 255

(***************************************************************************)
(* Bounds of the harnesses.                                                *)
(***************************************************************************)
MaxEntities == 3    \* longest master list the Manager harness builds
MaxOps == 2         \* operations the collision harness applies to one input

Types == {"Brick", "Ball", "Paddle"}

Abs(v) == IF v < 0 THEN -v ELSE v

(***************************************************************************)
(* Objects.                                                                *)
(***************************************************************************)
\* Ball::Ball: position, radius; velocity starts at {-defVelocity, -defVelocity}
NewBall(mX, mY) ==
    [type |-> "Ball", destroyed |-> FALSE, x |-> mX, y |-> mY,
     radius |-> Ball_defRadius,
     velocity |-> [x |-> -Ball_defVelocity, y |-> -Ball_defVelocity]]

\* Paddle::Paddle
NewPaddle(mX, mY) ==
    [type |-> "Paddle", destroyed |-> FALSE, x |-> mX, y |-> mY,
     w |-> Paddle_defWidth, h |-> Paddle_defHeight,
     velocity |-> [x |-> 0, y |-> 0]]

\* Brick::Brick; fillColor is not set by the constructor (alpha 0 stands for
\* the value not yet assigned; it is assigned by update before any draw)
NewBrick(mX, mY) ==
    [type |-> "Brick", destroyed |-> FALSE, x |-> mX, y |-> mY,
     w |-> Brick_defWidth, h |-> Brick_defHeight,
     requiredHits |-> 1, fillAlpha |-> 0]

(***************************************************************************)
(* Geometry: Rectangle and Circle edge accessors; the templates of         *)
(* isIntersecting are instantiated on the static type of the argument.     *)
(***************************************************************************)
left(s) == IF s.type = "Ball" THEN s.x - s.radius ELSE s.x - s.w \div 2
right(s) == IF s.type = "Ball" THEN s.x + s.radius ELSE s.x + s.w \div 2
top(s) == IF s.type = "Ball" THEN s.y - s.radius ELSE s.y - s.h \div 2
bottom(s) == IF s.type = "Ball" THEN s.y + s.radius ELSE s.y + s.h \div 2

\* Shape::move
move(s, vel) == [s EXCEPT !.x = s.x + vel.x, !.y = s.y + vel.y]

\* mutant: the first comparison is strict
isIntersectingStrict(mA, mB) ==
    /\ right(mA) > left(mB)
    /\ left(mA) <= right(mB)
    /\ bottom(mA) >= top(mB)
    /\ top(mA) <= bottom(mB)

isIntersecting(mA, mB) ==
    /\ right(mA) >= left(mB)
    /\ left(mA) <= right(mB)
    /\ bottom(mA) >= top(mB)
    /\ top(mA) <= bottom(mB)

(***************************************************************************)
(* Entity updates.                                                         *)
(***************************************************************************)
\* mutant: the bottom test includes the boundary
solveBoundCollisionsInclusive(b) ==
    LET b1 == IF left(b) < 0
                 THEN [b EXCEPT !.velocity.x = Ball_defVelocity]
                 ELSE IF right(b) > gScreenRect_w
                         THEN [b EXCEPT !.velocity.x = -Ball_defVelocity]
                         ELSE b
    IN  IF top(b1) < 0
           THEN [b1 EXCEPT !.velocity.y = Ball_defVelocity]
           ELSE IF bottom(b1) >= gScreenRect_h
                   THEN [b1 EXCEPT !.destroyed = TRUE]
                   ELSE b1

\* Ball::solveBoundCollisions
solveBoundCollisions(b) ==
    LET b1 == IF left(b) < 0
                 THEN [b EXCEPT !.velocity.x = Ball_defVelocity]
                 ELSE IF right(b) > gScreenRect_w
                         THEN [b EXCEPT !.velocity.x = -Ball_defVelocity]
                         ELSE b
    IN  IF top(b1) < 0
           THEN [b1 EXCEPT !.velocity.y = Ball_defVelocity]
           ELSE IF bottom(b1) > gScreenRect_h
                   THEN [b1 EXCEPT !.destroyed = TRUE]
                   ELSE b1

\* mutant: the bounds are resolved on the old position, then the ball moves
BallUpdateBoundsFirst(b) ==
    LET b1 == solveBoundCollisions(b) IN move(b1, b1.velocity)

\* Ball::update
BallUpdate(b) == solveBoundCollisions(move(b, b.velocity))

\* Paddle::update: processPlayerInput sets x from the touch location, then move
PaddleUpdate(p, touchX) ==
    LET p1 == [p EXCEPT !.x = touchX] IN move(p1, p1.velocity)

\* Brick::update
BrickUpdate(k) ==
    [k EXCEPT !.fillAlpha = IF k.requiredHits = 1 THEN alphaHits1
                            ELSE IF k.requiredHits = 2 THEN alphaHits2
                            ELSE alphaHits3]

\* virtual Entity::update
EntityUpdate(e, touchX) ==
    IF e.type = "Ball" THEN BallUpdate(e)
    ELSE IF e.type = "Paddle" THEN PaddleUpdate(e, touchX)
    ELSE BrickUpdate(e)

(***************************************************************************)
(* Collision resolution.  Each operator returns the objects it was handed  *)
(* by reference, as they are when the function returns.                    *)
(***************************************************************************)
\* mutant: equal centres bounce to the left
solvePaddleBallCollisionTieLeft(mPaddle, mBall) ==
    IF ~isIntersecting(mPaddle, mBall)
       THEN mBall
       ELSE [mBall EXCEPT
               !.velocity.y = -Ball_defVelocity,
               !.velocity.x = IF mBall.x <= mPaddle.x
                                 THEN -Ball_defVelocity
                                 ELSE Ball_defVelocity]

\* mutant: the horizontal speed depends on where the ball met the paddle
solvePaddleBallCollisionByOffset(mPaddle, mBall) ==
    IF ~isIntersecting(mPaddle, mBall)
       THEN mBall
       ELSE [mBall EXCEPT
               !.velocity.y = -Ball_defVelocity,
               !.velocity.x = mBall.x - mPaddle.x]

solvePaddleBallCollision(mPaddle, mBall) ==
    IF ~isIntersecting(mPaddle, mBall)
       THEN mBall
       ELSE [mBall EXCEPT
               !.velocity.y = -Ball_defVelocity,
               !.velocity.x = IF mBall.x < mPaddle.x
                                 THEN -Ball_defVelocity
                                 ELSE Ball_defVelocity]

\* mutant: the brick is destroyed only below zero
HitBrickBelowZero(mBrick) ==
    LET k == [mBrick EXCEPT !.requiredHits = mBrick.requiredHits - 1]
    IN  IF k.requiredHits < 0 THEN [k EXCEPT !.destroyed = TRUE] ELSE k

\* the hit count part of solveBrickBallCollision
HitBrick(mBrick) ==
    LET k == [mBrick EXCEPT !.requiredHits = mBrick.requiredHits - 1]
    IN  IF k.requiredHits <= 0 THEN [k EXCEPT !.destroyed = TRUE] ELSE k

\* mutant: the axis of the larger overlap is the one that bounces
BounceOffBrickLargerAxis(mBrick, mBall) ==
    LET overlapLeft == right(mBall) - left(mBrick)
        overlapRight == right(mBrick) - left(mBall)
        overlapTop == bottom(mBall) - top(mBrick)
        overlapBottom == bottom(mBrick) - top(mBall)
        ballFromLeft == Abs(overlapLeft) < Abs(overlapRight)
        ballFromTop == Abs(overlapTop) < Abs(overlapBottom)
        minOverlapX == IF ballFromLeft THEN overlapLeft ELSE overlapRight
        minOverlapY == IF ballFromTop THEN overlapTop ELSE overlapBottom
    IN  IF Abs(minOverlapX) > Abs(minOverlapY)
           THEN [mBall EXCEPT !.velocity.x =
                    IF ballFromLeft THEN -Ball_defVelocity ELSE Ball_defVelocity]
           ELSE [mBall EXCEPT !.velocity.y =
                    IF ballFromTop THEN -Ball_defVelocity ELSE Ball_defVelocity]

\* mutant: equal overlaps on the two axes bounce horizontally
BounceOffBrickTieHorizontal(mBrick, mBall) ==
    LET overlapLeft == right(mBall) - left(mBrick)
        overlapRight == right(mBrick) - left(mBall)
        overlapTop == bottom(mBall) - top(mBrick)
        overlapBottom == bottom(mBrick) - top(mBall)
        ballFromLeft == Abs(overlapLeft) < Abs(overlapRight)
        ballFromTop == Abs(overlapTop) < Abs(overlapBottom)
        minOverlapX == IF ballFromLeft THEN overlapLeft ELSE overlapRight
        minOverlapY == IF ballFromTop THEN overlapTop ELSE overlapBottom
    IN  IF Abs(minOverlapX) <= Abs(minOverlapY)
           THEN [mBall EXCEPT !.velocity.x =
                    IF ballFromLeft THEN -Ball_defVelocity ELSE Ball_defVelocity]
           ELSE [mBall EXCEPT !.velocity.y =
                    IF ballFromTop THEN -Ball_defVelocity ELSE Ball_defVelocity]

\* the bounce part of solveBrickBallCollision
BounceOffBrick(mBrick, mBall) ==
    LET overlapLeft == right(mBall) - left(mBrick)
        overlapRight == right(mBrick) - left(mBall)
        overlapTop == bottom(mBall) - top(mBrick)
        overlapBottom == bottom(mBrick) - top(mBall)
        ballFromLeft == Abs(overlapLeft) < Abs(overlapRight)
        ballFromTop == Abs(overlapTop) < Abs(overlapBottom)
        minOverlapX == IF ballFromLeft THEN overlapLeft ELSE overlapRight
        minOverlapY == IF ballFromTop THEN overlapTop ELSE overlapBottom
    IN  IF Abs(minOverlapX) < Abs(minOverlapY)
           THEN [mBall EXCEPT !.velocity.x =
                    IF ballFromLeft THEN -Ball_defVelocity ELSE Ball_defVelocity]
           ELSE [mBall EXCEPT !.velocity.y =
                    IF ballFromTop THEN -Ball_defVelocity ELSE Ball_defVelocity]

solveBrickBallCollision(mBrick, mBall) ==
    IF ~isIntersecting(mBrick, mBall)
       THEN [brick |-> mBrick, ball |-> mBall]
       ELSE [brick |-> HitBrick(mBrick), ball |-> BounceOffBrick(mBrick, mBall)]


(***************************************************************************)
(* Manager.  A manager value is the record of its two containers and of    *)
(* the objects they point to.                                              *)
(***************************************************************************)
Mgr == [heap |-> heap, entities |-> entities, groupedEntities |-> groupedEntities]

SetMgr(m) ==
    /\ heap' = m.heap
    /\ entities' = m.entities
    /\ groupedEntities' = m.groupedEntities

\* std::make_unique, k times in a row: the addresses of the new objects, each
\* the lowest one not in use
NewPtrs(h, k) ==
    LET n == Cardinality(DOMAIN h) + k
        free == SelectSeq([p \in 1..n |-> p], LAMBDA p : p \notin DOMAIN h)
    IN  SubSeq(free, 1, k)

\* std::map::operator[]: the entry of the key, created empty when missing
MapAt(g, T) == IF T \in DOMAIN g THEN g[T] ELSE <<>>
MapTouch(g, T) == [U \in DOMAIN g \cup {T} |-> MapAt(g, U)]

\* the pointers among ptrs whose object, at the same index of objs, has type T
OfType(ptrs, objs, T) ==
    LET idx == SelectSeq([i \in 1..Len(objs) |-> i], LAMBDA i : objs[i].type = T)
    IN  [j \in 1..Len(idx) |-> ptrs[idx[j]]]

\* mutant: the new owning pointers go to the front of the master list
RegisteringAtFront(m, objs, ptrs) ==
    [heap |-> [p \in DOMAIN m.heap \cup {ptrs[i] : i \in 1..Len(ptrs)} |->
                  IF p \in DOMAIN m.heap THEN m.heap[p]
                  ELSE objs[CHOOSE i \in 1..Len(ptrs) : ptrs[i] = p]],
     groupedEntities |->
         [T \in DOMAIN m.groupedEntities \cup {objs[i].type : i \in 1..Len(objs)} |->
             MapAt(m.groupedEntities, T) \o OfType(ptrs, objs, T)],
     entities |-> ptrs \o m.entities]

\* the containers of m after the objects objs were registered at ptrs
Registering(m, objs, ptrs) ==
    [heap |-> [p \in DOMAIN m.heap \cup {ptrs[i] : i \in 1..Len(ptrs)} |->
                  IF p \in DOMAIN m.heap THEN m.heap[p]
                  ELSE objs[CHOOSE i \in 1..Len(ptrs) : ptrs[i] = p]],
     groupedEntities |->
         [T \in DOMAIN m.groupedEntities \cup {objs[i].type : i \in 1..Len(objs)} |->
             MapAt(m.groupedEntities, T) \o OfType(ptrs, objs, T)],
     entities |-> m.entities \o ptrs]

\* Manager::create<T> called once for each object of objs, in order: every
\* call appends the new pointer to the view of its type and to the master list
createAll(m, objs) == Registering(m, objs, NewPtrs(m.heap, Len(objs)))

\* Manager::create<T>
create(m, obj) == createAll(m, <<obj>>)

\* mutant: erase(new_end) without the end of the range erases one element only
RECURSIVE EraseFirstDestroyed(_, _)
EraseFirstDestroyed(vector, h) ==
    IF vector = <<>> THEN <<>>
    ELSE IF h[Head(vector)].destroyed THEN Tail(vector)
    ELSE <<Head(vector)>> \o EraseFirstDestroyed(Tail(vector), h)

\* mutant: nothing is erased
EraseNothing(vector, h) == vector

\* mutant: a destroyed element is overwritten by the last one (unstable erase)
RECURSIVE EraseSwapWithLast(_, _)
EraseSwapWithLast(vector, h) ==
    IF vector = <<>> THEN <<>>
    ELSE IF ~h[Head(vector)].destroyed
            THEN <<Head(vector)>> \o EraseSwapWithLast(Tail(vector), h)
    ELSE IF Len(vector) = 1 THEN <<>>
    ELSE EraseSwapWithLast(<<vector[Len(vector)]>>
                              \o SubSeq(vector, 2, Len(vector) - 1), h)

\* vector.erase(std::remove_if(begin, end, destroyed), end)
EraseDestroyed(vector, h) == SelectSeq(vector, LAMBDA p : ~h[p].destroyed)

\* mutant: refresh erases from the master list only
refreshMasterOnly(m) ==
    LET kept == EraseDestroyed(m.entities, m.heap)
        live == {kept[i] : i \in 1..Len(kept)}
    IN  [heap |-> [p \in live |-> m.heap[p]],
         groupedEntities |-> m.groupedEntities,
         entities |-> kept]

\* Manager::refresh: the grouped views first, then the master list, whose
\* erased unique_ptrs free their objects
refresh(m) ==
    LET kept == EraseDestroyed(m.entities, m.heap)
        live == {kept[i] : i \in 1..Len(kept)}
    IN  [heap |-> [p \in live |-> m.heap[p]],
         groupedEntities |-> [T \in DOMAIN m.groupedEntities |->
                                 EraseDestroyed(m.groupedEntities[T], m.heap)],
         entities |-> kept]

\* mutant: clear forgets the master list and the objects it owns
clearGroupsOnly(m) == [m EXCEPT !.groupedEntities = <<>>]

\* a Manager as constructed: both containers empty
EmptyManager == [heap |-> <<>>, groupedEntities |-> <<>>, entities |-> <<>>]

\* Manager::clear
clear(m) == EmptyManager

\* Manager::getAll<T>: the view; the map entry is created when missing
getAll(m, T) == MapAt(m.groupedEntities, T)
getAllTouch(m, T) == [m EXCEPT !.groupedEntities = MapTouch(m.groupedEntities, T)]

\* Manager::update: update of every owned entity, in master-list order.  An
\* update reads and writes its own object only (and the touch location), so
\* the loop's result is the update of each object the list points to.
update(m, touchX) ==
    LET owned == {m.entities[i] : i \in 1..Len(m.entities)}
    IN  [m EXCEPT !.heap = [p \in DOMAIN m.heap |->
                               IF p \in owned THEN EntityUpdate(m.heap[p], touchX)
                               ELSE m.heap[p]]]

\* Manager::update: the dynamic types of the objects whose update the loop
\* calls, in the order of the calls
UpdateOrder(m) == [i \in 1..Len(m.entities) |-> m.heap[m.entities[i]].type]

(***************************************************************************)
(* The collision pass of Game::run: for every ball, every brick and then   *)
(* every paddle.  forEach<T> reads the view through getAll<T>.             *)
(***************************************************************************)
RECURSIVE BricksFrom(_, _, _, _)
BricksFrom(h, bricks, j, ballPtr) ==
    IF j > Len(bricks) THEN h
    ELSE LET r == solveBrickBallCollision(h[bricks[j]], h[ballPtr])
         IN  BricksFrom([h EXCEPT ![bricks[j]] = r.brick, ![ballPtr] = r.ball],
                        bricks, j + 1, ballPtr)

RECURSIVE PaddlesFrom(_, _, _, _)
PaddlesFrom(h, paddles, j, ballPtr) ==
    IF j > Len(paddles) THEN h
    ELSE PaddlesFrom([h EXCEPT ![ballPtr] =
                         solvePaddleBallCollision(h[paddles[j]], h[ballPtr])],
                     paddles, j + 1, ballPtr)

\* mutant: the traversal of the bricks stops after the first hit
HittingFirstOnly(h, bricks, ballPtr) ==
    LET hit == SelectSeq(bricks, LAMBDA k : isIntersecting(h[k], h[ballPtr]))
    IN  IF hit = <<>> THEN hit ELSE <<hit[1]>>

\* the bricks of a view that intersect the ball; solveBrickBallCollision
\* returns at once for the others, and no position changes during the pass
Hitting(h, bricks, ballPtr) ==
    SelectSeq(bricks, LAMBDA k : isIntersecting(h[k], h[ballPtr]))

RECURSIVE BallsFrom(_, _, _, _, _)
BallsFrom(h, balls, i, bricks, paddles) ==
    IF i > Len(balls) THEN h
    ELSE BallsFrom(PaddlesFrom(BricksFrom(h, Hitting(h, bricks, balls[i]), 1, balls[i]),
                               paddles, 1, balls[i]),
                   balls, i + 1, bricks, paddles)

collisionPass(m) ==
    LET m1 == getAllTouch(m, "Ball")
        m2 == IF Len(getAll(m1, "Ball")) > 0
                 THEN getAllTouch(getAllTouch(m1, "Brick"), "Paddle")
                 ELSE m1
    IN  [m2 EXCEPT !.heap = BallsFrom(m.heap, getAll(m2, "Ball"), 1,
                                      getAll(m2, "Brick"), getAll(m2, "Paddle"))]

(***************************************************************************)
(* Game::restart.                                                          *)
(***************************************************************************)
\* requiredHits of the brick at grid position (iX, iY)
brickHits(iX, iY) == 1 + ((iX * iY) % 3)

brickX(iX) == brkOffsetX + (iX + brkStartColumn) * (Brick_defWidth + brkSpacing)
brickY(iY) == (iY + brkStartRow) * (Brick_defHeight + brkSpacing)

\* the bricks that the nested loops over iX (outer) and iY (inner) create, in
\* the order of their creation, each with its requiredHits set
GridBricks ==
    [n \in 1..(brkCountX * brkCountY) |->
        LET iX == (n - 1) \div brkCountY
            iY == (n - 1) % brkCountY
        IN  [NewBrick(brickX(iX), brickY(iY)) EXCEPT
                !.requiredHits = brickHits(iX, iY)]]

CreateBricks(m) == createAll(m, GridBricks)

\* mutant: restart does not clear the store first
restartStoreNoClear(m) ==
    create(create(CreateBricks(m),
                  NewBall(gScreenRect_w \div 2, gScreenRect_h \div 2)),
           NewPaddle(gScreenRect_w \div 2, gScreenRect_h - paddleBottomMargin))

restartStore(m) ==
    create(create(CreateBricks(clear(m)),
                  NewBall(gScreenRect_w \div 2, gScreenRect_h \div 2)),
           NewPaddle(gScreenRect_w \div 2, gScreenRect_h - paddleBottomMargin))

restart ==
    /\ remainingLives' = initialLives
    /\ state' = "Paused"
    /\ SetMgr(restartStore(Mgr))

(***************************************************************************)
(* main and the frame loop of Game::run.                                   *)
(***************************************************************************)
\* the horizontal touch positions the finger events deliver
TouchXs == {144, 400}

Init ==
    /\ heap = <<>>
    /\ entities = <<>>
    /\ groupedEntities = <<>>
    /\ state = "GameOver"
    /\ pausePressedLastFrame = FALSE
    /\ remainingLives = 0
    /\ gTouchLocation = gScreenRect_w \div 2
    /\ gTouchTap = FALSE
    /\ quit = FALSE
    /\ pc = "main"
    /\ op = "init"
    /\ nOps = 0

\* main: game.restart() before game.run()
MainRestart ==
    /\ pc = "main"
    /\ restart
    /\ pc' = "poll"
    /\ op' = "restart"
    /\ UNCHANGED <<pausePressedLastFrame, gTouchLocation, gTouchTap, quit, nOps>>

\* gTouchTap = false and the SDL_PollEvent loop: a finger down sets the tap,
\* any finger event sets the location, a quit event sets quit
PollEvents ==
    /\ pc = "poll"
    /\ \E tap \in BOOLEAN, x \in TouchXs \cup {gTouchLocation}, q \in BOOLEAN :
          /\ gTouchTap' = tap
          /\ gTouchLocation' = x
          /\ quit' = q
    /\ pc' = "keys"
    /\ op' = "poll"
    /\ UNCHANGED <<heap, entities, groupedEntities, state, pausePressedLastFrame,
                   remainingLives, nOps>>

\* if (gCurrentKeyStates[SDL_SCANCODE_ESCAPE]) break;
EscapeBreak ==
    /\ pc = "keys"
    /\ pc' = "done"
    /\ op' = "escape"
    /\ UNCHANGED <<heap, entities, groupedEntities, state, pausePressedLastFrame,
                   remainingLives, gTouchLocation, gTouchTap, quit, nOps>>

\* mutant: the branch under #if 0 is compiled in, a press also pauses
PauseKeyToggle ==
    /\ pc = "keys"
    /\ \E keyP \in BOOLEAN :
          IF keyP \/ gTouchTap
             THEN /\ state' = IF pausePressedLastFrame THEN state
                               ELSE IF state = "Paused" THEN "InProgress"
                               ELSE IF state = "InProgress" THEN "Paused"
                               ELSE state
                  /\ pausePressedLastFrame' = TRUE
             ELSE /\ state' = state
                  /\ pausePressedLastFrame' = FALSE
    /\ pc' = "restart"
    /\ op' = "pause"
    /\ UNCHANGED <<heap, entities, groupedEntities, remainingLives, gTouchLocation,
                   gTouchTap, quit, nOps>>

\* mutant: a tap in GameOver restarts before the pause handling toggles
PauseKeyRestartFirst ==
    /\ pc = "keys"
    /\ \E keyP \in BOOLEAN :
          IF state = "GameOver" /\ gTouchTap
             THEN /\ SetMgr(restartStore(Mgr))
                  /\ remainingLives' = initialLives
                  /\ state' = IF ~pausePressedLastFrame THEN "InProgress"
                               ELSE "Paused"
                  /\ pausePressedLastFrame' = TRUE
             ELSE /\ IF keyP \/ gTouchTap
                        THEN /\ state' = IF ~pausePressedLastFrame /\ state = "Paused"
                                            THEN "InProgress" ELSE state
                             /\ pausePressedLastFrame' = TRUE
                        ELSE /\ state' = state
                             /\ pausePressedLastFrame' = FALSE
                  /\ UNCHANGED <<heap, entities, groupedEntities, remainingLives>>
    /\ pc' = "restart"
    /\ op' = "pause"
    /\ UNCHANGED <<gTouchLocation, gTouchTap, quit, nOps>>

\* the pause key / tap handling
PauseKey ==
    /\ pc = "keys"
    /\ \E keyP \in BOOLEAN :
          IF keyP \/ gTouchTap
             THEN /\ state' = IF ~pausePressedLastFrame /\ state = "Paused"
                                 THEN "InProgress" ELSE state
                  /\ pausePressedLastFrame' = TRUE
             ELSE /\ state' = state
                  /\ pausePressedLastFrame' = FALSE
    /\ pc' = "restart"
    /\ op' = "pause"
    /\ UNCHANGED <<heap, entities, groupedEntities, remainingLives, gTouchLocation,
                   gTouchTap, quit, nOps>>

\* if (R key || (state == GameOver && gTouchTap)) restart();
RestartKey ==
    /\ pc = "restart"
    /\ \E keyR \in BOOLEAN :
          IF keyR \/ (state = "GameOver" /\ gTouchTap)
             THEN restart /\ op' = "restart"
             ELSE /\ UNCHANGED <<heap, entities, groupedEntities, state, remainingLives>>
                  /\ op' = "noRestart"
    /\ pc' = "check"
    /\ UNCHANGED <<pausePressedLastFrame, gTouchLocation, gTouchTap, quit, nOps>>

\* state != InProgress: only the status text is rendered
ShowStatus ==
    /\ pc = "check"
    /\ state # "InProgress"
    /\ pc' = "present"
    /\ op' = "status"
    /\ UNCHANGED <<heap, entities, groupedEntities, state, pausePressedLastFrame,
                   remainingLives, gTouchLocation, gTouchTap, quit, nOps>>

\* mutant: the test for no bricks left is missing
SpawnAndJudgeNoVictory ==
    /\ pc = "check"
    /\ state = "InProgress"
    /\ LET m0 == getAllTouch(Mgr, "Ball")
           noBall == Len(getAll(m0, "Ball")) = 0
           m1 == IF noBall
                    THEN create(m0, NewBall(gScreenRect_w \div 2, gScreenRect_h \div 2))
                    ELSE m0
           lives == IF noBall THEN remainingLives - 1 ELSE remainingLives
           m2 == getAllTouch(m1, "Brick")
           s1 == state
           s2 == IF lives <= 0 THEN "GameOver" ELSE s1
       IN  /\ SetMgr(m2)
           /\ remainingLives' = lives
           /\ state' = s2
    /\ pc' = "update"
    /\ op' = "spawn"
    /\ UNCHANGED <<pausePressedLastFrame, gTouchLocation, gTouchTap, quit, nOps>>

\* mutant: the game is over only below zero lives
SpawnAndJudgeBelowZero ==
    /\ pc = "check"
    /\ state = "InProgress"
    /\ LET m0 == getAllTouch(Mgr, "Ball")
           noBall == Len(getAll(m0, "Ball")) = 0
           m1 == IF noBall
                    THEN create(m0, NewBall(gScreenRect_w \div 2, gScreenRect_h \div 2))
                    ELSE m0
           lives == IF noBall THEN remainingLives - 1 ELSE remainingLives
           m2 == getAllTouch(m1, "Brick")
           s1 == IF Len(getAll(m2, "Brick")) = 0 THEN "Victory" ELSE state
           s2 == IF lives < 0 THEN "GameOver" ELSE s1
       IN  /\ SetMgr(m2)
           /\ remainingLives' = lives
           /\ state' = s2
    /\ pc' = "update"
    /\ op' = "spawn"
    /\ UNCHANGED <<pausePressedLastFrame, gTouchLocation, gTouchTap, quit, nOps>>

\* state == InProgress: respawn the ball, then the victory and game over tests
SpawnAndJudge ==
    /\ pc = "check"
    /\ state = "InProgress"
    /\ LET m0 == getAllTouch(Mgr, "Ball")
           noBall == Len(getAll(m0, "Ball")) = 0
           m1 == IF noBall
                    THEN create(m0, NewBall(gScreenRect_w \div 2, gScreenRect_h \div 2))
                    ELSE m0
           lives == IF noBall THEN remainingLives - 1 ELSE remainingLives
           m2 == getAllTouch(m1, "Brick")
           s1 == IF Len(getAll(m2, "Brick")) = 0 THEN "Victory" ELSE state
           s2 == IF lives <= 0 THEN "GameOver" ELSE s1
       IN  /\ SetMgr(m2)
           /\ remainingLives' = lives
           /\ state' = s2
    /\ pc' = "update"
    /\ op' = "spawn"
    /\ UNCHANGED <<pausePressedLastFrame, gTouchLocation, gTouchTap, quit, nOps>>

\* manager.update()
ManagerUpdate ==
    /\ pc = "update"
    /\ SetMgr(update(Mgr, gTouchLocation))
    /\ pc' = "collide"
    /\ op' = "update"
    /\ UNCHANGED <<state, pausePressedLastFrame, remainingLives, gTouchLocation,
                   gTouchTap, quit, nOps>>

\* the nested forEach of balls, bricks and paddles
CollisionPass ==
    /\ pc = "collide"
    /\ SetMgr(collisionPass(Mgr))
    /\ pc' = "refresh"
    /\ op' = "collide"
    /\ UNCHANGED <<state, pausePressedLastFrame, remainingLives, gTouchLocation,
                   gTouchTap, quit, nOps>>

\* manager.refresh()
ManagerRefresh ==
    /\ pc = "refresh"
    /\ SetMgr(refresh(Mgr))
    /\ pc' = "draw"
    /\ op' = "refresh"
    /\ UNCHANGED <<state, pausePressedLastFrame, remainingLives, gTouchLocation,
                   gTouchTap, quit, nOps>>

\* manager.draw( renderer ) and the lives text: rendering only
ManagerDraw ==
    /\ pc = "draw"
    /\ pc' = "present"
    /\ op' = "draw"
    /\ UNCHANGED <<heap, entities, groupedEntities, state, pausePressedLastFrame,
                   remainingLives, gTouchLocation, gTouchTap, quit, nOps>>

\* SDL_RenderPresent and the loop condition while (!quit)
Present ==
    /\ pc = "present"
    /\ pc' = IF quit THEN "done" ELSE "poll"
    /\ op' = "present"
    /\ UNCHANGED <<heap, entities, groupedEntities, state, pausePressedLastFrame,
                   remainingLives, gTouchLocation, gTouchTap, quit, nOps>>

Next ==
    \/ MainRestart
    \/ PollEvents
    \/ EscapeBreak
    \/ PauseKey
    \/ RestartKey
    \/ ShowStatus
    \/ SpawnAndJudge
    \/ ManagerUpdate
    \/ CollisionPass
    \/ ManagerRefresh
    \/ ManagerDraw
    \/ Present

Spec == Init /\ [][Next]_vars

(***************************************************************************)
(* The frame loop played by a finger that either rides on the ball, so     *)
(* that every finger event reports the ball's horizontal position, or      *)
(* rests at RestX and sends no event.  The finger changes between the two  *)
(* only while no ball is in play: in a state other than InProgress, or     *)
(* when no ball is registered.                                             *)
(***************************************************************************)
\* where the finger rests.  Every ball x is a multiple of Ball_defVelocity
\* (the centre 400 plus or minus steps of 8), RestX is not, so a touch
\* location equal to RestX tells a resting finger from one on the ball.
RestX == 148

\* the horizontal positions a finger on the ball reports: the x of each ball
\* registered (e.tfinger.x * gScreenRect.w, a pixel of 0..800)
BallXs == {heap[getAll(Mgr, "Ball")[i]].x : i \in 1..Len(getAll(Mgr, "Ball"))}

\* the touch locations the finger events of one frame can leave; with no
\* ball registered the finger can wait at the centre, where a ball is created
FingerXs ==
    IF state = "InProgress" /\ BallXs # {}
       THEN IF gTouchLocation = RestX THEN {RestX} ELSE BallXs
       ELSE BallXs \cup {RestX, gTouchLocation}
               \cup (IF BallXs = {} THEN {gScreenRect_w \div 2} ELSE {})

PollEventsTracking ==
    /\ pc = "poll"
    /\ \E tap \in BOOLEAN, x \in FingerXs, q \in BOOLEAN :
          /\ gTouchTap' = tap
          /\ gTouchLocation' = x
          /\ quit' = q
    /\ pc' = "keys"
    /\ op' = "poll"
    /\ UNCHANGED <<heap, entities, groupedEntities, state, pausePressedLastFrame,
                   remainingLives, nOps>>

NextTracking ==
    \/ MainRestart
    \/ PollEventsTracking
    \/ EscapeBreak
    \/ PauseKey
    \/ RestartKey
    \/ ShowStatus
    \/ SpawnAndJudge
    \/ ManagerUpdate
    \/ CollisionPass
    \/ ManagerRefresh
    \/ ManagerDraw
    \/ Present

SpecTracking == Init /\ [][NextTracking]_vars

(***************************************************************************)
(* Harness of the Manager: any sequence of create, destroyed-flag          *)
(* mutation, getAll, refresh and clear on a store of at most MaxEntities   *)
(* entities.                                                               *)
(***************************************************************************)
\* a freshly constructed object of each type, as restart constructs them
FreshObject(T) ==
    IF T = "Ball" THEN NewBall(gScreenRect_w \div 2, gScreenRect_h \div 2)
    ELSE IF T = "Paddle"
            THEN NewPaddle(gScreenRect_w \div 2, gScreenRect_h - paddleBottomMargin)
            ELSE NewBrick(brickX(0), brickY(0))

GameIdle ==
    /\ state = "GameOver"
    /\ pausePressedLastFrame = FALSE
    /\ remainingLives = 0
    /\ gTouchLocation = gScreenRect_w \div 2
    /\ gTouchTap = FALSE
    /\ quit = FALSE

InitManager ==
    /\ heap = <<>>
    /\ entities = <<>>
    /\ groupedEntities = <<>>
    /\ GameIdle
    /\ pc = "manager"
    /\ op = "init"
    /\ nOps = 0

gameVars == <<state, pausePressedLastFrame, remainingLives, gTouchLocation,
              gTouchTap, quit>>

MgrCreate ==
    /\ pc = "manager"
    /\ Len(entities) < MaxEntities
    /\ \E T \in Types : SetMgr(create(Mgr, FreshObject(T)))
    /\ op' = "create"
    /\ nOps' = 0
    /\ UNCHANGED <<gameVars, pc>>

\* a write to the destroyed flag of an entity through a reference to it
MgrSetDestroyed ==
    /\ pc = "manager"
    /\ \E p \in DOMAIN heap, b \in BOOLEAN :
          heap' = [heap EXCEPT ![p].destroyed = b]
    /\ op' = "destroy"
    /\ nOps' = 0
    /\ UNCHANGED <<entities, groupedEntities, gameVars, pc>>

MgrGetAll ==
    /\ pc = "manager"
    /\ \E T \in Types : SetMgr(getAllTouch(Mgr, T))
    /\ op' = "getAll"
    /\ nOps' = 0
    /\ UNCHANGED <<gameVars, pc>>

MgrRefresh ==
    /\ pc = "manager"
    /\ SetMgr(refresh(Mgr))
    /\ op' = "refresh"
    /\ nOps' = IF op = "refresh" THEN 2 ELSE 1
    /\ UNCHANGED <<gameVars, pc>>

MgrClear ==
    /\ pc = "manager"
    /\ SetMgr(clear(Mgr))
    /\ op' = "clear"
    /\ nOps' = 0
    /\ UNCHANGED <<gameVars, pc>>

NextManager ==
    \/ MgrCreate
    \/ MgrSetDestroyed
    \/ MgrGetAll
    \/ MgrRefresh
    \/ MgrClear

SpecManager == InitManager /\ [][NextManager]_vars

(***************************************************************************)
(* Harness of the collision functions and of Ball::update: one brick, one  *)
(* ball and one paddle, drawn from bounded sets; at most MaxOps            *)
(* applications of the functions to them.                                  *)
(***************************************************************************)
\* the one brick, ball and paddle of the harness, through their views
theBrick == groupedEntities["Brick"][1]
theBall == groupedEntities["Ball"][1]
thePaddle == groupedEntities["Paddle"][1]

\* ball centres around the brick of grid position (0, 0): extents 55..115, 36..56
NearBrick == {44, 45, 50, 85, 120, 125, 126} \X {25, 26, 30, 31, 46, 62, 66, 67}
\* ball centres around the paddle at (400, 550): extents 370..430, 540..560
NearPaddle == {359, 360, 399, 400, 401, 440, 441} \X {529, 530, 550, 570, 571}
\* ball centres one step away from the world bounds
NearBounds == {17, 18, 400, 782, 783} \X {17, 18, 581, 582, 583}

BallCentres == NearBrick \cup NearPaddle \cup NearBounds
Speeds == {-Ball_defVelocity, Ball_defVelocity}

InitCollision ==
    /\ \E c \in BallCentres, vx \in Speeds, vy \in Speeds, hits \in 1..3 :
          LET brick == [NewBrick(brickX(0), brickY(0)) EXCEPT !.requiredHits = hits]
              ball == [NewBall(c[1], c[2]) EXCEPT !.velocity = [x |-> vx, y |-> vy]]
              paddle == NewPaddle(gScreenRect_w \div 2,
                                  gScreenRect_h - paddleBottomMargin)
              m == create(create(create(EmptyManager, brick), ball), paddle)
          IN  /\ heap = m.heap
              /\ entities = m.entities
              /\ groupedEntities = m.groupedEntities
    /\ GameIdle
    /\ pc = "collision"
    /\ op = "init"
    /\ nOps = 0

UnitBrickBall ==
    /\ pc = "collision"
    /\ nOps < MaxOps
    /\ LET r == solveBrickBallCollision(heap[theBrick], heap[theBall])
       IN  heap' = [heap EXCEPT ![theBrick] = r.brick, ![theBall] = r.ball]
    /\ op' = "brickBall"
    /\ nOps' = nOps + 1
    /\ UNCHANGED <<entities, groupedEntities, gameVars, pc>>

UnitPaddleBall ==
    /\ pc = "collision"
    /\ nOps < MaxOps
    /\ heap' = [heap EXCEPT ![theBall] =
                   solvePaddleBallCollision(heap[thePaddle], heap[theBall])]
    /\ op' = "paddleBall"
    /\ nOps' = nOps + 1
    /\ UNCHANGED <<entities, groupedEntities, gameVars, pc>>

UnitBallUpdate ==
    /\ pc = "collision"
    /\ nOps < MaxOps
    /\ ~heap[theBall].destroyed
    /\ heap' = [heap EXCEPT ![theBall] = BallUpdate(heap[theBall])]
    /\ op' = "ballUpdate"
    /\ nOps' = nOps + 1
    /\ UNCHANGED <<entities, groupedEntities, gameVars, pc>>

NextCollision ==
    \/ UnitBrickBall
    \/ UnitPaddleBall
    \/ UnitBallUpdate

SpecCollision == InitCollision /\ [][NextCollision]_vars

(***************************************************************************)
(* Harness of the collision pass: the pass of Game::run on a store of two  *)
(* neighbouring bricks, one ball and one paddle, followed or not by        *)
(* refresh.  The paddle is either where restart puts it or right under     *)
(* the bricks, so that one ball can meet bricks and paddle in one pass.    *)
(***************************************************************************)
\* grid positions of the second brick: right of and below the brick at (0, 0)
SecondBricks == {<<1, 0>>, <<0, 1>>}
\* paddle centres: as restart creates it, and under the bricks (extents
\* 86..146, 66..86)
PaddleCentres == {<<gScreenRect_w \div 2, gScreenRect_h - paddleBottomMargin>>,
                  <<116, 76>>}
\* ball centres: between the two bricks of a row (116), between those of a
\* column (y 58), on one brick only, on the paddle only, on nothing
PassCentres == {<<116, 46>>, <<116, 56>>, <<112, 30>>, <<85, 58>>, <<85, 46>>,
                <<50, 31>>, <<148, 66>>, <<400, 540>>, <<400, 300>>}

InitPass ==
    /\ \E g \in SecondBricks, pp \in PaddleCentres, c \in PassCentres,
          vx \in Speeds, vy \in Speeds, hits1 \in 1..3, hits2 \in 1..3 :
          LET brick1 == [NewBrick(brickX(0), brickY(0)) EXCEPT !.requiredHits = hits1]
              brick2 == [NewBrick(brickX(g[1]), brickY(g[2])) EXCEPT
                            !.requiredHits = hits2]
              ball == [NewBall(c[1], c[2]) EXCEPT !.velocity = [x |-> vx, y |-> vy]]
              paddle == NewPaddle(pp[1], pp[2])
              m == createAll(EmptyManager, <<brick1, brick2, ball, paddle>>)
          IN  /\ heap = m.heap
              /\ entities = m.entities
              /\ groupedEntities = m.groupedEntities
    /\ GameIdle
    /\ pc = "pass"
    /\ op = "init"
    /\ nOps = 0

PassCollide ==
    /\ pc = "pass"
    /\ nOps < MaxOps
    /\ SetMgr(collisionPass(Mgr))
    /\ op' = "collide"
    /\ nOps' = nOps + 1
    /\ UNCHANGED <<gameVars, pc>>

PassRefresh ==
    /\ pc = "pass"
    /\ op = "collide"
    /\ SetMgr(refresh(Mgr))
    /\ op' = "refresh"
    /\ UNCHANGED <<gameVars, pc, nOps>>

NextPass ==
    \/ PassCollide
    \/ PassRefresh

SpecPass == InitPass /\ [][NextPass]_vars

(***************************************************************************)
(* Properties.                                                             *)
(***************************************************************************)
\* the pointers registered in the master list and in the grouped views
Registered ==
    {entities[i] : i \in 1..Len(entities)}
    \cup UNION {{groupedEntities[T][i] : i \in 1..Len(groupedEntities[T])} :
                   T \in DOMAIN groupedEntities}

View(T) == MapAt(groupedEntities, T)

\* C1: after Manager::refresh returns, no pointer of the master list or of a
\* grouped view refers to an entity whose destroyed flag is set (nor to an
\* entity that was freed), whatever creates and flag writes came before.
C1_RefreshRemovesDestroyed ==
    op = "refresh" =>
        \A p \in Registered : p \in DOMAIN heap /\ ~heap[p].destroyed

\* C1 witness: a refresh has removed the first entity created, a brick, and
\* has kept a ball created after it.
C1_Witness ==
    /\ pc = "manager"
    /\ op = "refresh"
    /\ entities = <<2>>
    /\ View("Ball") = <<2>>
    /\ "Brick" \in DOMAIN groupedEntities
    /\ View("Brick") = <<>>

\* C2: a refresh that directly follows a refresh leaves the objects, the
\* master list and every grouped view as the first refresh left them.
C2_RefreshIdempotent ==
    [][(op = "refresh" /\ op' = "refresh") =>
          (heap' = heap /\ entities' = entities /\ groupedEntities' = groupedEntities)]_vars

\* C2 witness: two refresh calls in a row on a store that has lost an entity
\* and still holds others.
C2_Witness ==
    /\ pc = "manager"
    /\ op = "refresh"
    /\ nOps = 2
    /\ Len(entities) = 2
    /\ 1 \notin DOMAIN heap

\* the objects of a type that the store owns
Owned(T) == {p \in DOMAIN heap : heap[p].type = T}

\* C3: when Game::restart returns, whatever the store held before, the store
\* holds exactly brkCountX * brkCountY = 44 bricks, one ball and one paddle
\* and nothing else; the ball is at the world centre (400, 300); the brick
\* created for grid position (iX, iY) needs 1 + ((iX * iY) mod 3) hits, a
\* value in 1..3; remainingLives is 3 and the state is Paused.
C3_RestartPostState ==
    op = "restart" =>
        /\ Len(View("Brick")) = brkCountX * brkCountY
        /\ Len(View("Brick")) = 44
        /\ Len(View("Ball")) = 1
        /\ Len(View("Paddle")) = 1
        /\ Len(entities) = 46
        /\ Cardinality(DOMAIN heap) = 46
        /\ Cardinality(Owned("Brick")) = 44
        /\ Cardinality(Owned("Ball")) = 1
        /\ Cardinality(Owned("Paddle")) = 1
        /\ LET ball == heap[View("Ball")[1]]
           IN  ball.type = "Ball" /\ ball.x = 400 /\ ball.y = 300 /\ ~ball.destroyed
        /\ heap[View("Paddle")[1]].type = "Paddle"
        /\ \A iX \in 0..(brkCountX - 1), iY \in 0..(brkCountY - 1) :
              LET brick == heap[View("Brick")[iX * brkCountY + iY + 1]]
              IN  /\ brick.type = "Brick"
                  /\ brick.x = 22 + (iX + 1) * 63
                  /\ brick.y = (iY + 2) * 23
                  /\ brick.requiredHits = 1 + ((iX * iY) % 3)
                  /\ brick.requiredHits \in 1..3
                  /\ ~brick.destroyed
        /\ remainingLives = 3
        /\ state = "Paused"

\* C3 witness: restart was called from the frame loop, in a frame with a tap,
\* on a store that already held the entities of the previous restart.
C3_Witness ==
    /\ op = "restart"
    /\ pc = "check"
    /\ gTouchTap
    /\ pausePressedLastFrame
    /\ state = "Paused"
    /\ remainingLives = 3
    /\ Len(entities) = 46

\* the bricks the store owns have never gone below 0 hits, are destroyed
\* exactly when at 0, and need at least one hit and are not destroyed when
\* the collision pass starts
BrickHitsInvariant ==
    /\ \A p \in Owned("Brick") :
          /\ heap[p].requiredHits >= 0
          /\ heap[p].destroyed <=> (heap[p].requiredHits <= 0)
    /\ pc = "collide" =>
          \A i \in 1..Len(View("Brick")) :
              LET brick == heap[View("Brick")[i]]
              IN  brick.requiredHits >= 1 /\ ~brick.destroyed

\* within a round, a brick loses hits one at a time and only in the collision
\* pass, is never decremented once destroyed, and becomes destroyed only on
\* the decrement that brings it to 0
BrickHitsStep ==
    op' # "restart" =>
        \A p \in Owned("Brick") :
            (p \in DOMAIN heap' /\ heap'[p].type = "Brick") =>
                /\ heap'[p].requiredHits \in
                      {heap[p].requiredHits, heap[p].requiredHits - 1}
                /\ heap'[p].requiredHits < heap[p].requiredHits =>
                      (op' = "collide" /\ ~heap[p].destroyed
                       /\ heap[p].requiredHits >= 1)
                /\ heap[p].destroyed => heap'[p].destroyed
                /\ (~heap[p].destroyed /\ heap'[p].destroyed) =>
                      (/\ heap'[p].requiredHits = heap[p].requiredHits - 1
                       /\ heap'[p].requiredHits <= 0)

\* C5: in the game loop after restart, every brick registered in the store
\* needs at least one hit at the moment solveBrickBallCollision decrements
\* it, and each brick goes from not destroyed to destroyed at most once, on
\* the decrement that brings requiredHits to <= 0; no brick is hit again
\* after it was marked destroyed.
C5_BrickDestroyedOnce == []BrickHitsInvariant /\ [][BrickHitsStep]_vars

\* C5 witness: the collision pass has just brought a brick to 0 hits and
\* marked it destroyed, while another brick that was hit is still alive.
C5_Witness ==
    /\ pc = "refresh"
    /\ \E p \in Owned("Brick") : heap[p].destroyed /\ heap[p].requiredHits = 0
    /\ \E p \in Owned("Brick") :
          /\ ~heap[p].destroyed
          /\ LET iX == ((heap[p].x - 22) \div 63) - 1
                 iY == (heap[p].y \div 23) - 2
             IN  heap[p].requiredHits < 1 + ((iX * iY) % 3)

\* C10 as claimed: whenever update, the collision pass, refresh or draw is
\* about to execute, the state is InProgress.
C10_PipelineOnlyInProgress ==
    pc \in {"update", "collide", "refresh", "draw"} => state = "InProgress"

(***************************************************************************)
(* Properties of the collision functions, on the collision harness.        *)
(***************************************************************************)
Min(a, b) == IF a <= b THEN a ELSE b

\* the smaller of the two horizontal overlaps of ball b and brick k, and the
\* smaller of the two vertical ones, in absolute value
SmallerOverlapX(k, b) ==
    Min(Abs((b.x + b.radius) - (k.x - k.w \div 2)),
        Abs((k.x + k.w \div 2) - (b.x - b.radius)))
SmallerOverlapY(k, b) ==
    Min(Abs((b.y + b.radius) - (k.y - k.h \div 2)),
        Abs((k.y + k.h \div 2) - (b.y - b.radius)))

\* a rectangle r and a circle c overlap or touch, written on their fields
Touching(r, c) ==
    /\ r.x + r.w \div 2 >= c.x - c.radius
    /\ r.x - r.w \div 2 <= c.x + c.radius
    /\ r.y + r.h \div 2 >= c.y - c.radius
    /\ r.y - r.h \div 2 <= c.y + c.radius

\* C4: on an intersecting brick and ball solveBrickBallCollision takes
\* exactly one from the brick's requiredHits and the brick is destroyed iff
\* the new value is <= 0 (a brick at 1 becomes destroyed, a brick at 3 goes
\* to 2 and then to 1 and stays alive); the paddle is untouched; when brick
\* and ball do not intersect nothing changes.
C4_BrickHit ==
    [][op' = "brickBall" =>
          IF Touching(heap[theBrick], heap[theBall])
             THEN /\ heap'[theBrick].requiredHits = heap[theBrick].requiredHits - 1
                  /\ heap'[theBrick].destroyed <=> (heap'[theBrick].requiredHits <= 0)
                  /\ (heap[theBrick].requiredHits = 1 => heap'[theBrick].destroyed)
                  /\ (heap[theBrick].requiredHits >= 2 => ~heap'[theBrick].destroyed)
                  /\ heap'[theBrick] = [heap[theBrick] EXCEPT
                                           !.requiredHits = heap'[theBrick].requiredHits,
                                           !.destroyed = heap'[theBrick].destroyed]
                  /\ heap'[thePaddle] = heap[thePaddle]
             ELSE heap' = heap]_vars

\* C4 witness: the one operation applied was a hit on an intersecting brick
\* that needed one hit; it is now at 0 and destroyed.
C4_Witness ==
    /\ pc = "collision"
    /\ op = "brickBall"
    /\ nOps = 1
    /\ Touching(heap[theBrick], heap[theBall])
    /\ heap[theBrick].requiredHits = 0
    /\ heap[theBrick].destroyed

\* C6 as claimed: after Ball::update a ball whose bottom edge is exactly at
\* the bottom boundary (600) is destroyed and one whose bottom edge is at 599
\* is not.
C6_DestroyedAtBoundary ==
    op = "ballUpdate" =>
        /\ bottom(heap[theBall]) = gScreenRect_h => heap[theBall].destroyed
        /\ bottom(heap[theBall]) = gScreenRect_h - 1 => ~heap[theBall].destroyed

\* C6 amended: after Ball::update a ball is destroyed iff its bottom edge is
\* beyond the bottom boundary (bottom() > 600); a ball whose bottom edge is
\* exactly at the boundary (600) or just above it (599) is not destroyed.
C6_DestroyedBeyondBoundary ==
    op = "ballUpdate" =>
        /\ heap[theBall].destroyed <=> (heap[theBall].y + heap[theBall].radius > 600)
        /\ bottom(heap[theBall]) = gScreenRect_h => ~heap[theBall].destroyed
        /\ bottom(heap[theBall]) = gScreenRect_h - 1 => ~heap[theBall].destroyed

\* C6 witness: an update has left the ball's bottom edge exactly at 600 and
\* the ball is not destroyed.
C6_Witness ==
    /\ pc = "collision"
    /\ op = "ballUpdate"
    /\ heap[theBall].y + heap[theBall].radius = 600
    /\ ~heap[theBall].destroyed

\* C7: solvePaddleBallCollision changes nothing unless paddle and ball
\* intersect; when they do, it sets the ball's velocity.y to -defVelocity and
\* velocity.x to -defVelocity if ball.x < paddle.x and to +defVelocity
\* otherwise (equal centres go right), whatever the velocity was, and
\* changes nothing else.
C7_PaddleBounce ==
    [][op' = "paddleBall" =>
          IF Touching(heap[thePaddle], heap[theBall])
             THEN /\ heap'[theBall] =
                        [heap[theBall] EXCEPT
                            !.velocity = [x |-> IF heap[theBall].x < heap[thePaddle].x
                                                   THEN -8 ELSE 8,
                                          y |-> -8]]
                  /\ heap'[thePaddle] = heap[thePaddle]
                  /\ heap'[theBrick] = heap[theBrick]
             ELSE heap' = heap]_vars

\* C7 witness: a ball that moved down and to the left, centred exactly on
\* the paddle's centre, has been sent up and to the right.
C7_Witness ==
    /\ pc = "collision"
    /\ op = "paddleBall"
    /\ nOps = 1
    /\ heap[theBall].x = heap[thePaddle].x
    /\ Touching(heap[thePaddle], heap[theBall])
    /\ heap[theBall].velocity = [x |-> 8, y |-> -8]

\* C8 as claimed: when the ball intersects the brick and the smaller
\* vertical overlap is larger than the smaller horizontal overlap,
\* solveBrickBallCollision leaves the horizontal velocity unchanged.
C8_VerticalOnly ==
    [][(/\ op' = "brickBall"
        /\ Touching(heap[theBrick], heap[theBall])
        /\ SmallerOverlapY(heap[theBrick], heap[theBall])
              > SmallerOverlapX(heap[theBrick], heap[theBall]))
          => heap'[theBall].velocity.x = heap[theBall].velocity.x]_vars

\* C8 amended: when the ball intersects the brick and the smaller vertical
\* overlap is larger than the smaller horizontal overlap, only the
\* horizontal velocity is assigned (-defVelocity or +defVelocity) and the
\* vertical velocity is unchanged; when the smaller vertical overlap is not
\* larger than the horizontal one, only the vertical velocity is assigned
\* and the horizontal velocity is unchanged.
C8_SmallerOverlapAxisBounces ==
    [][(op' = "brickBall" /\ Touching(heap[theBrick], heap[theBall])) =>
          IF SmallerOverlapY(heap[theBrick], heap[theBall])
                > SmallerOverlapX(heap[theBrick], heap[theBall])
             THEN /\ heap'[theBall].velocity.y = heap[theBall].velocity.y
                  /\ heap'[theBall].velocity.x \in {-8, 8}
             ELSE /\ heap'[theBall].velocity.x = heap[theBall].velocity.x
                  /\ heap'[theBall].velocity.y \in {-8, 8}]_vars

\* C8 witness: a ball that came from the left, deeper into the brick on the
\* vertical axis than on the horizontal one, was hit and now moves left.
C8_Witness ==
    /\ pc = "collision"
    /\ op = "brickBall"
    /\ nOps = 1
    /\ Touching(heap[theBrick], heap[theBall])
    /\ SmallerOverlapY(heap[theBrick], heap[theBall])
          > SmallerOverlapX(heap[theBrick], heap[theBall])
    /\ heap[theBall].x < heap[theBrick].x
    /\ heap[theBall].velocity.x = -8

\* C9: isIntersecting gives the same answer with its arguments swapped, for
\* the brick and the ball and for the paddle and the ball, and it is true
\* exactly when the extents overlap or touch on both axes.
C9_IntersectSymmetricInclusive ==
    pc = "collision" =>
        \A r \in {theBrick, thePaddle} :
            /\ isIntersecting(heap[r], heap[theBall])
                  = isIntersecting(heap[theBall], heap[r])
            /\ isIntersecting(heap[r], heap[theBall])
                  <=> Touching(heap[r], heap[theBall])

\* C9 witness: the ball's right edge is exactly on the brick's left edge and
\* the two count as intersecting, in both argument orders.
C9_Witness ==
    /\ pc = "collision"
    /\ heap[theBall].x + heap[theBall].radius
          = heap[theBrick].x - heap[theBrick].w \div 2
    /\ isIntersecting(heap[theBrick], heap[theBall])
    /\ isIntersecting(heap[theBall], heap[theBrick])

(***************************************************************************)
(* Properties of the frame loop.                                           *)
(***************************************************************************)
\* C11: the state changes only from Paused to InProgress, in the pause
\* handling of a frame with a press (key or tap) that the previous frame did
\* not have; from InProgress to Victory or GameOver, in the judgement of an
\* InProgress frame (which never finds both no brick and no life left, so it
\* assigns one verdict only); and to Paused in restart, which leaves Paused
\* whatever the state was.  So InProgress becomes Paused only through
\* restart, and Victory and GameOver are left only through restart.
C11_StateTransitions ==
    [][/\ state' # state =>
            \/ /\ state = "Paused" /\ state' = "InProgress"
               /\ op' = "pause"
               /\ ~pausePressedLastFrame /\ pausePressedLastFrame'
            \/ /\ state = "InProgress" /\ state' \in {"Victory", "GameOver"}
               /\ op' = "spawn"
            \/ /\ state' = "Paused" /\ op' = "restart"
       /\ op' = "restart" => state' = "Paused"
       /\ op' = "spawn" => ~(Len(View("Brick")) = 0 /\ remainingLives' <= 0)]_vars

\* C11 witness: the pause handling has seen a tap in the Victory state and
\* has left the state Victory.
C11_Witness ==
    /\ pc = "restart"
    /\ op = "pause"
    /\ gTouchTap
    /\ pausePressedLastFrame
    /\ state = "Victory"

\* C12: the state becomes Victory only in the judgement of an InProgress
\* frame that found no brick registered, every InProgress frame that finds
\* no brick registered is judged Victory, and the state is still Victory
\* when that frame ends.  The store an InProgress frame judges is the store
\* the frame began with: restart did not run in it.
C12_VictoryOnEmptyBricks ==
    /\ []((pc = "check" /\ state = "InProgress") => op = "noRestart")
    /\ [][/\ (state' = "Victory" /\ state # "Victory") =>
               (op' = "spawn" /\ state = "InProgress" /\ Len(View("Brick")) = 0)
          /\ (op' = "spawn" /\ Len(View("Brick")) = 0) => state' = "Victory"
          /\ (state = "Victory"
                 /\ pc \in {"update", "collide", "refresh", "draw", "present"})
               => state' = "Victory"]_vars

\* C12 witness: a frame that began with no brick, after two balls were lost,
\* has been judged Victory.
C12_Witness ==
    /\ op = "spawn"
    /\ pc = "update"
    /\ Len(View("Brick")) = 0
    /\ Owned("Brick") = {}
    /\ remainingLives = 1
    /\ state = "Victory"

\* C13: an InProgress frame that finds no ball registered creates exactly one
\* ball, at the world centre (400, 300), and takes exactly one life; a frame
\* that finds a ball creates none and keeps the lives; nothing else changes
\* remainingLives except restart, which sets it to 3; remainingLives stays
\* within 0..3; the state becomes GameOver exactly in the judgement that
\* leaves remainingLives <= 0.
C13_LostBallCostsOneLife ==
    /\ [](remainingLives \in 0..3)
    /\ [][/\ (op' = "spawn" /\ Len(View("Ball")) = 0) =>
               /\ remainingLives' = remainingLives - 1
               /\ Len(entities') = Len(entities) + 1
               /\ SubSeq(entities', 1, Len(entities)) = entities
               /\ View("Ball")' = <<entities'[Len(entities')]>>
               /\ DOMAIN heap' = DOMAIN heap \cup {entities'[Len(entities')]}
               /\ entities'[Len(entities')] \notin DOMAIN heap
               /\ LET ball == heap'[entities'[Len(entities')]]
                  IN  /\ ball.type = "Ball" /\ ~ball.destroyed
                      /\ ball.x = 400 /\ ball.y = 300
               /\ \A p \in DOMAIN heap : heap'[p] = heap[p]
          /\ (op' = "spawn" /\ Len(View("Ball")) > 0) =>
               /\ remainingLives' = remainingLives
               /\ entities' = entities /\ heap' = heap
               /\ View("Ball")' = View("Ball")
          /\ remainingLives' # remainingLives =>
               \/ op' = "spawn" /\ state = "InProgress" /\ Len(View("Ball")) = 0
               \/ op' = "restart" /\ remainingLives' = 3
          /\ op' = "restart" => remainingLives' = 3
          /\ (op' = "spawn" /\ remainingLives' <= 0) => state' = "GameOver"
          /\ (state' = "GameOver" /\ state # "GameOver") =>
               (op' = "spawn" /\ state = "InProgress" /\ remainingLives' <= 0)]_vars

\* C13 witness: the judgement of a frame that found no ball has created the
\* ball at the centre, taken the last life and set GameOver.
C13_Witness ==
    /\ op = "spawn"
    /\ pc = "update"
    /\ remainingLives = 0
    /\ state = "GameOver"
    /\ Len(View("Ball")) = 1
    /\ heap[View("Ball")[1]].x = 400
    /\ heap[View("Ball")[1]].y = 300
    /\ entities[Len(entities)] = View("Ball")[1]

\* every grouped view is, after the step, what it was before it
ViewsKept ==
    \A T \in DOMAIN groupedEntities :
        T \in DOMAIN groupedEntities' /\ groupedEntities'[T] = groupedEntities[T]

\* the pointers held by a vector
Range(vector) == {vector[i] : i \in 1..Len(vector)}

\* the step takes a pointer out of a grouped view
ViewsShrink ==
    \E T \in DOMAIN groupedEntities :
        /\ groupedEntities[T] # <<>>
        /\ \/ T \notin DOMAIN groupedEntities'
           \/ ~(Range(groupedEntities[T]) \subseteq Range(groupedEntities'[T]))

\* C14: in a frame that runs the pipeline the phases follow one another as
\* update, collision pass, refresh, draw; update and the collision pass
\* remove nothing from the master list, from a grouped view or from the
\* objects owned; an entity leaves the store only in refresh or in the clear
\* of restart; when draw runs, no entity of the master list is destroyed.
C14_MarkThenSweep ==
    /\ [](pc = "draw" =>
            /\ op = "refresh"
            /\ \A i \in 1..Len(entities) :
                  entities[i] \in DOMAIN heap /\ ~heap[entities[i]].destroyed)
    /\ [][/\ pc = "update" => (pc' = "collide" /\ op' = "update")
          /\ pc = "collide" => (pc' = "refresh" /\ op' = "collide")
          /\ pc = "refresh" => (pc' = "draw" /\ op' = "refresh")
          /\ pc = "draw" => (pc' = "present" /\ op' = "draw")
          /\ pc' = "update" => (pc = "check" /\ op' = "spawn")
          /\ pc' = "collide" => pc = "update"
          /\ pc' = "refresh" => pc = "collide"
          /\ pc' = "draw" => pc = "refresh"
          /\ op' \in {"update", "collide"} =>
                (entities' = entities /\ DOMAIN heap' = DOMAIN heap /\ ViewsKept)
          /\ (\/ ~(DOMAIN heap \subseteq DOMAIN heap')
              \/ ~(Range(entities) \subseteq Range(entities'))
              \/ ViewsShrink)
                => op' \in {"refresh", "restart"}]_vars

\* C14 witness: draw is about to run on a store from which this frame's
\* refresh has removed a brick that the collision pass had destroyed.
C14_Witness ==
    /\ pc = "draw"
    /\ op = "refresh"
    /\ Len(View("Brick")) = 43
    /\ Len(entities) = 45
    /\ \A i \in 1..Len(entities) : ~heap[entities[i]].destroyed

\* the calls go to bricks only and then to the types of last, in this order
BricksThen(order, last) ==
    /\ Len(order) >= Len(last)
    /\ \A i \in 1..Len(order) :
          order[i] = IF i <= Len(order) - Len(last) THEN "Brick"
                     ELSE last[i - (Len(order) - Len(last))]

\* one call of update has acted on the object at p: a ball has moved by its
\* velocity, a paddle is at the touch location, a brick is where it was with
\* the hits it had
UpdatedOnce(p) ==
    IF heap[p].type = "Ball"
       THEN /\ heap'[p].x = heap[p].x + heap[p].velocity.x
            /\ heap'[p].y = heap[p].y + heap[p].velocity.y
    ELSE IF heap[p].type = "Paddle"
       THEN heap'[p].x = gTouchLocation /\ heap'[p].y = heap[p].y
    ELSE /\ heap'[p].x = heap[p].x /\ heap'[p].y = heap[p].y
         /\ heap'[p].requiredHits = heap[p].requiredHits
         /\ heap'[p].fillAlpha \in {80, 170, 255}

\* C15 as claimed: in every frame of a round, frames after a respawn
\* included, update is called on all bricks first, then on the ball, then on
\* the paddle.
C15_BricksBallPaddle ==
    pc = "update" => BricksThen(UpdateOrder(Mgr), <<"Ball", "Paddle">>)

\* C15 amended: Manager::update calls update once on every owned entity, in
\* master-list (creation) order; while no ball of the round was lost this is
\* all bricks, then the ball, then the paddle; after a lost ball was
\* respawned the new ball is the last of the master list, so it is all
\* bricks, then the paddle, then the ball.
C15_CreationOrder ==
    /\ [](pc = "update" =>
            /\ Cardinality(Range(entities)) = Len(entities)
            /\ Range(entities) = DOMAIN heap
            /\ IF remainingLives = initialLives
                  THEN BricksThen(UpdateOrder(Mgr), <<"Ball", "Paddle">>)
                  ELSE BricksThen(UpdateOrder(Mgr), <<"Paddle", "Ball">>))
    /\ [][op' = "update" =>
            /\ entities' = entities
            /\ \A i \in 1..Len(entities) : UpdatedOnce(entities[i])]_vars

\* C15 witness: update is about to run in a frame after the first ball of
\* the round was lost; the respawned ball comes after the paddle.
C15_Witness ==
    /\ pc = "update"
    /\ remainingLives = 2
    /\ Len(entities) >= 3
    /\ heap[entities[Len(entities)]].type = "Ball"
    /\ heap[entities[Len(entities) - 1]].type = "Paddle"
    /\ heap[entities[Len(entities) - 2]].type = "Brick"

(***************************************************************************)
(* Properties of the collision pass, on its harness.                       *)
(***************************************************************************)
\* the ball of the pass and the bricks of the view that it overlaps or
\* touches, in registration order
PassBall == heap[View("Ball")[1]]
PassHit == SelectSeq(View("Brick"), LAMBDA k : Touching(heap[k], PassBall))

\* the ball after the bounces off the bricks of hit, one after the other
RECURSIVE BouncedOff(_, _)
BouncedOff(hit, ball) ==
    IF hit = <<>> THEN ball
    ELSE BouncedOff(Tail(hit), BounceOffBrick(heap[Head(hit)], ball))

\* C16: one collision pass takes exactly one hit from every brick of the
\* view that intersects the ball, not from the first one only, and leaves
\* every other brick as it was; the ball keeps its position and bounces off
\* the bricks in registration order; the paddle is tested after all bricks,
\* so when it intersects the ball too the velocity is the one the paddle
\* assigns, whatever the bricks assigned.
C16_AllBricksThenPaddle ==
    [][(pc = "pass" /\ op' = "collide") =>
          LET paddle == heap[View("Paddle")[1]]
          IN  /\ \A k \in Range(View("Brick")) :
                    IF Touching(heap[k], PassBall)
                       THEN /\ heap'[k].requiredHits = heap[k].requiredHits - 1
                            /\ heap'[k].destroyed
                                  <=> (heap[k].destroyed \/ heap'[k].requiredHits <= 0)
                       ELSE heap'[k] = heap[k]
              /\ heap'[View("Paddle")[1]] = paddle
              /\ heap'[View("Ball")[1]].x = PassBall.x
              /\ heap'[View("Ball")[1]].y = PassBall.y
              /\ heap'[View("Ball")[1]].velocity =
                    IF Touching(paddle, PassBall)
                       THEN [x |-> IF PassBall.x < paddle.x THEN -8 ELSE 8, y |-> -8]
                       ELSE BouncedOff(PassHit, PassBall).velocity
              /\ entities' = entities]_vars

\* C16 witness: after a single pass both bricks, which needed one hit
\* each, are at 0 and destroyed, and the ball between them, which the first
\* brick sent right and the second one left, moves left.
C16_Witness ==
    /\ pc = "pass"
    /\ op = "collide"
    /\ nOps = 1
    /\ Len(View("Brick")) = 2
    /\ \A k \in Range(View("Brick")) :
          heap[k].requiredHits = 0 /\ heap[k].destroyed
    /\ heap[View("Ball")[1]].x = 116
    /\ heap[View("Ball")[1]].y = 46
    /\ heap[View("Ball")[1]].velocity.x = -8
    /\ ~Touching(heap[View("Paddle")[1]], heap[View("Ball")[1]])

(***************************************************************************)
(* More properties of the collision functions, on the collision harness.   *)
(***************************************************************************)
\* C17: on an intersecting brick and ball solveBrickBallCollision takes the
\* left side if |ball.right - brick.left| < |brick.right - ball.left| and
\* the right side otherwise, the top side if |ball.bottom - brick.top| <
\* |brick.bottom - ball.top| and the bottom side otherwise; if the overlap
\* of the horizontal side is strictly smaller than that of the vertical
\* side it sets velocity.x to -8 (left) or +8 (right) and keeps velocity.y;
\* otherwise, equal overlaps included, it sets velocity.y to -8 (top) or +8
\* (bottom) and keeps velocity.x.  The ball does not move.
C17_BounceAxisAndSide ==
    [][(op' = "brickBall" /\ Touching(heap[theBrick], heap[theBall])) =>
          LET k == heap[theBrick]
              b == heap[theBall]
              oLeft == (b.x + b.radius) - (k.x - k.w \div 2)
              oRight == (k.x + k.w \div 2) - (b.x - b.radius)
              oTop == (b.y + b.radius) - (k.y - k.h \div 2)
              oBottom == (k.y + k.h \div 2) - (b.y - b.radius)
              fromLeft == Abs(oLeft) < Abs(oRight)
              fromTop == Abs(oTop) < Abs(oBottom)
              oX == IF fromLeft THEN Abs(oLeft) ELSE Abs(oRight)
              oY == IF fromTop THEN Abs(oTop) ELSE Abs(oBottom)
          IN  /\ heap'[theBall].velocity =
                    IF oX < oY
                       THEN [x |-> IF fromLeft THEN -8 ELSE 8, y |-> b.velocity.y]
                       ELSE [x |-> b.velocity.x, y |-> IF fromTop THEN -8 ELSE 8]
              /\ heap'[theBall].x = b.x /\ heap'[theBall].y = b.y
              /\ heap'[theBall].destroyed = b.destroyed]_vars

\* C17 witness: a ball 5 deep into the brick from the left and 5 deep from
\* the top (equal overlaps) was hit once: it goes up and keeps going right.
C17_Witness ==
    /\ pc = "collision"
    /\ op = "brickBall"
    /\ nOps = 1
    /\ heap[theBall].x + 10 - (heap[theBrick].x - 30) = 5
    /\ heap[theBall].y + 10 - (heap[theBrick].y - 10) = 5
    /\ heap[theBall].velocity = [x |-> 8, y |-> -8]

\* C18: Ball::update moves the ball by its velocity and resolves the bounds
\* on the new position: left() < 0 sets velocity.x to +8, otherwise
\* right() > 800 sets it to -8; top() < 0 sets velocity.y to +8, otherwise
\* bottom() > 600 marks the ball destroyed and keeps velocity.y; a ball
\* inside the bounds keeps both components and is not destroyed.
C18_MoveThenBounds ==
    [][op' = "ballUpdate" =>
          LET b == heap[theBall]
              nx == b.x + b.velocity.x
              ny == b.y + b.velocity.y
          IN  /\ heap'[theBall].x = nx
              /\ heap'[theBall].y = ny
              /\ heap'[theBall].velocity.x =
                    IF nx - 10 < 0 THEN 8
                    ELSE IF nx + 10 > 800 THEN -8 ELSE b.velocity.x
              /\ heap'[theBall].velocity.y =
                    IF ny - 10 < 0 THEN 8 ELSE b.velocity.y
              /\ heap'[theBall].destroyed <=> (ny - 10 >= 0 /\ ny + 10 > 600)
              /\ (nx - 10 >= 0 /\ nx + 10 <= 800 /\ ny - 10 >= 0 /\ ny + 10 <= 600)
                    => (heap'[theBall].velocity = b.velocity
                        /\ ~heap'[theBall].destroyed)]_vars

\* C18 witness: one update has moved the ball to x = 9, one pixel over the
\* left bound, and it now moves right; one more step left would not have
\* crossed the bound from x = 18.
C18_Witness ==
    /\ pc = "collision"
    /\ op = "ballUpdate"
    /\ nOps = 1
    /\ heap[theBall].x = 9
    /\ heap[theBall].velocity.x = 8
    /\ ~heap[theBall].destroyed

(***************************************************************************)
(* More properties of the Manager, on its harness.                         *)
(***************************************************************************)
\* the position of pointer p in a vector that holds it
IndexOf(vector, p) == CHOOSE i \in 1..Len(vector) : vector[i] = p

\* after is before without some elements: every element of after is in
\* before, once, and in the order it had there
SameOrder(before, after) ==
    /\ Range(after) \subseteq Range(before)
    /\ Cardinality(Range(after)) = Len(after)
    /\ \A i \in 1..Len(after) : \A j \in 1..Len(after) :
          i < j => IndexOf(before, after[i]) < IndexOf(before, after[j])

\* C19: refresh removes destroyed entities only: an entity that is not
\* destroyed and was in the master list and in its grouped view is in both
\* afterwards, unchanged; every entity gone was destroyed; the survivors
\* keep their relative (registration) order in the master list and in every
\* grouped view.
C19_RefreshKeepsLiveInOrder ==
    [][op' = "refresh" =>
          /\ \A p \in Range(entities) :
                IF heap[p].destroyed
                   THEN p \notin Range(entities')
                   ELSE p \in Range(entities') /\ heap'[p] = heap[p]
          /\ SameOrder(entities, entities')
          /\ DOMAIN groupedEntities' = DOMAIN groupedEntities
          /\ \A T \in DOMAIN groupedEntities :
                /\ \A p \in Range(groupedEntities[T]) :
                      heap[p].destroyed <=> p \notin Range(groupedEntities'[T])
                /\ SameOrder(groupedEntities[T], groupedEntities'[T])]_vars

\* C19 witness: of three entities of one type the second one was destroyed;
\* after refresh the first and the third are left, in this order, in the
\* master list and in the view.
C19_Witness ==
    /\ pc = "manager"
    /\ op = "refresh"
    /\ nOps = 1
    /\ entities = <<1, 3>>
    /\ \E T \in DOMAIN groupedEntities : groupedEntities[T] = <<1, 3>>
    /\ ~heap[1].destroyed /\ ~heap[3].destroyed

\* C20: after any sequence of create, writes to destroyed flags, getAll,
\* refresh and clear, every pointer of a grouped view refers to an entity
\* that the master list owns, of the type of the view; every owned entity is
\* once in the master list, once in the view of its own type and in no
\* other view; after clear the master list and the group index are empty.
C20_IndexMatchesMasterList ==
    /\ Range(entities) = DOMAIN heap
    /\ Cardinality(Range(entities)) = Len(entities)
    /\ \A T \in DOMAIN groupedEntities :
          /\ Range(groupedEntities[T]) \subseteq Range(entities)
          /\ Cardinality(Range(groupedEntities[T])) = Len(groupedEntities[T])
          /\ \A p \in Range(groupedEntities[T]) : heap[p].type = T
    /\ \A p \in Range(entities) :
          /\ heap[p].type \in DOMAIN groupedEntities
          /\ p \in Range(groupedEntities[heap[p].type])
    /\ op = "clear" => (entities = <<>> /\ DOMAIN groupedEntities = {}
                        /\ DOMAIN heap = {})

\* C20 witness: the first of three entities was destroyed and swept, and a
\* fourth one was created afterwards (at the address that was freed); the
\* store holds entities of more than one type, one of them marked destroyed
\* and not swept yet.
C20_Witness ==
    /\ pc = "manager"
    /\ op = "create"
    /\ entities = <<2, 3, 1>>
    /\ heap[1].type # heap[2].type
    /\ \E p \in DOMAIN heap : heap[p].destroyed

(***************************************************************************)
(* More properties of the frame loop.                                      *)
(***************************************************************************)
\* C21: from main's restart on, at every point of every frame, the frame
\* boundaries included, the store holds exactly one paddle, which is not
\* destroyed, and at most one ball; when update is about to run it holds
\* exactly one ball, not destroyed; a ball enters the store only in restart
\* or in the judgement of a frame that found the Ball view empty.
C21_OnePaddleOneBall ==
    /\ [](pc # "main" =>
            /\ Len(View("Paddle")) = 1
            /\ Cardinality(Owned("Paddle")) = 1
            /\ ~heap[View("Paddle")[1]].destroyed
            /\ Len(View("Ball")) <= 1
            /\ Cardinality(Owned("Ball")) <= 1)
    /\ [](pc = "update" =>
            /\ Len(View("Ball")) = 1
            /\ ~heap[View("Ball")[1]].destroyed)
    /\ [][~(Range(View("Ball"))' \subseteq Range(View("Ball"))) =>
            \/ op' = "restart"
            \/ op' = "spawn" /\ Len(View("Ball")) = 0]_vars

\* C21 witness: a frame boundary in a round that has lost a ball: no ball is
\* registered, the paddle is, and the finger has moved it.
C21_Witness ==
    /\ pc = "poll"
    /\ state = "InProgress"
    /\ remainingLives = 2
    /\ Len(View("Ball")) = 0
    /\ Len(View("Paddle")) = 1
    /\ heap[View("Paddle")[1]].x = 144

\* C22: in every reachable state of the game each component of every
\* ball's velocity is +8 or -8; a ball that has just been created, by restart
\* or by the respawn, has velocity (-8, -8).
C22_BallSpeedFixed ==
    /\ [](\A p \in Owned("Ball") :
            /\ heap[p].velocity.x \in {-8, 8}
            /\ heap[p].velocity.y \in {-8, 8}
            /\ Abs(heap[p].velocity.x) = Ball_defVelocity
            /\ Abs(heap[p].velocity.y) = Ball_defVelocity)
    /\ [][(op' = "restart" \/ (op' = "spawn" /\ Len(View("Ball")) = 0)) =>
            heap'[View("Ball")'[1]].velocity = [x |-> -8, y |-> -8]]_vars

\* C22 witness: the ball has met the paddle right of the paddle's centre and
\* the collision pass has sent it up and to the right, at (8, -8).
C22_Witness ==
    /\ pc = "refresh"
    /\ op = "collide"
    /\ Len(View("Ball")) = 1
    /\ Touching(heap[View("Paddle")[1]], heap[View("Ball")[1]])
    /\ heap[View("Ball")[1]].x > heap[View("Paddle")[1]].x
    /\ heap[View("Ball")[1]].velocity = [x |-> 8, y |-> -8]

\* C23: in a frame with a tap in the GameOver state the pause handling runs
\* first and leaves GameOver (it toggles Paused only) with the press
\* recorded; then restart runs and sets Paused, and the frame ends Paused.
\* The state becomes InProgress only from Paused, in the pause handling of a
\* frame with a press whose previous frame had none, so never in the frame
\* of the restart, and a press that lasts over consecutive frames toggles
\* nothing after the first of them.
C23_TapInGameOverLeavesPaused ==
    /\ []((pc = "check" /\ op = "restart") =>
            (state = "Paused" /\ (gTouchTap => pausePressedLastFrame)))
    /\ []((pc = "restart" /\ gTouchTap) => pausePressedLastFrame)
    /\ [][/\ (op' = "pause" /\ state = "GameOver") => state' = "GameOver"
          /\ (pc = "restart" /\ state = "GameOver" /\ gTouchTap) =>
                (op' = "restart" /\ pc' = "check" /\ state' = "Paused")
          /\ (pc = "check" /\ state = "Paused") =>
                (pc' = "present" /\ state' = "Paused")
          /\ pc = "present" => state' = state
          /\ (state' = "InProgress" /\ state # "InProgress") =>
                (state = "Paused" /\ op' = "pause" /\ ~pausePressedLastFrame)
          /\ (op' = "pause" /\ pausePressedLastFrame) => state' = state]_vars

\* C23 witness: a round was lost; in a later frame a tap has come in the
\* GameOver state, the pause handling has recorded the press and has left
\* the state GameOver, and restart is about to run.
C23_Witness ==
    /\ pc = "restart"
    /\ op = "pause"
    /\ state = "GameOver"
    /\ gTouchTap
    /\ pausePressedLastFrame
    /\ remainingLives = 0
    /\ Len(entities) > 0

=============================================================================
